---- MODULE Spec2Model ----
(***************************************************************************)
(* Message-passing layers of model/mp_layers.py (GCNConv, GINEConv,        *)
(* DMPNNConv, OrigDMPNNConv) with the tetrahedral correction.              *)
(*                                                                         *)
(* Tensors are functions over 0..n-1 (0-based, as in the source).  Feature *)
(* values are symbolic: x[i] is named by the node index i, edge_attr[e] by *)
(* the edge position e, and one scalar of edge_attr by its offset e*H + h  *)
(* in the contiguous storage.  Learned maps (linear, mlp, batch_norm,      *)
(* tetra_update) are uninterpreted: a result is recorded by its arguments. *)
(***************************************************************************)
EXTENDS Integers, FiniteSets, Sequences, TLC

(* ------------------------------ bounds -------------------------------- *)
NumNodes == 5          \* x.size(0) of the graphs explored
MaxDeg == 5            \* longest list of in-edges given to one centre
MaxH == 2              \* largest args.hidden_size explored

(* ------------------------- program constants --------------------------- *)
TetraArity == 4        \* repeat_interleave(4), view(.., 4, -1), [1, 0, 2, 3]

Variants == {"GCN", "GINE", "DMPNN", "OrigDMPNN"}
Directed(v) == v \in {"DMPNN", "OrigDMPNN"}
ParityVals == {-2, -1, 0, 1, 2}
NoNode == -1           \* marks a representation built without node features

VARIABLES
    variant,        \* which layer class is run
    tetra,          \* self.tetra (args.tetra)
    H,              \* args.hidden_size: columns of edge_attr
    N,              \* x.size(0)
    row, col,       \* edge_index[0], edge_index[1]
    parity_atoms,   \* parity per node
    pc,             \* position inside forward / tetra_message
    err,            \* the exception that ended forward, "" when none
    deg,            \* GCNConv.forward: deg per node (the tensor given to pow(-0.5))
    norm,           \* GCNConv.forward: norm per edge, the pair of degrees whose
                    \* pow(-0.5) are multiplied
    x_new,          \* x_new / a_message: aggregated message per node
    tetra_ids,      \* parity_atoms.nonzero().squeeze(1)
    tetra_nei_ids,  \* (K, d) neighbour tuples
    t_deg,          \* GCNConv.tetra_message: deg[tetra_nei_ids]
    edge_ids,       \* (2, 4K) pairs looked up in edge_index, stored as 4K pairs
    edge_reps,      \* (K, 4) edge positions whose edge_attr row is fetched
    tmsg,           \* value returned by tetra_message: one message per centre
    rev_message,    \* (E, H) storage offsets of edge_attr
    out_node,       \* first returned tensor
    out_edge        \* second returned tensor

vars == <<variant, tetra, H, N, row, col, parity_atoms, pc, err, deg, norm, x_new,
          tetra_ids, tetra_nei_ids, t_deg, edge_ids, edge_reps, tmsg,
          rev_message, out_node, out_edge>>

(* ---------------------------- tensor helpers --------------------------- *)
Size(t) == Cardinality(DOMAIN t)
Empty == << >>
Range(t) == {t[i] : i \in DOMAIN t}

\* the k-th smallest element (k counted from 0) of a finite set of integers
Nth(S, k) == CHOOSE e \in S : Cardinality({f \in S : f < e}) = k

\* the elements of S in ascending order, as a 0-based tensor
Ascending(S) == [k \in 0..(Cardinality(S) - 1) |-> Nth(S, k)]

\* a 1-based sequence as a 0-based tensor
Tensor(s) == [k \in 0..(Len(s) - 1) |-> s[k + 1]]

(* ------------------------------ the inputs ----------------------------- *)
Nodes == 0..(NumNodes - 1)

\* injective sequences of length n over S: edge lists without a repeated edge
InjSeqs(S, n) == {s \in [1..n -> S] : \A i, j \in 1..n : i < j => s[i] # s[j]}

\* the elements of T in ascending order, as a 1-based sequence
AscSeq(T) == [k \in 1..Cardinality(T) |-> Nth(T, k - 1)]

\* lists of distinct in-neighbours drawn from S: every order of every 4 of them,
\* and one list for every other choice of at most MaxDeg of them
SrcLists(S) ==
    InjSeqs(S, TetraArity) \cup {AscSeq(T) : T \in {U \in SUBSET S : Cardinality(U) <= MaxDeg}}

\* parity vector that is zero except where f says otherwise
ParityOf(f) == [i \in Nodes |-> IF i \in DOMAIN f THEN f[i] ELSE 0]

\* in-edges of centre c only: (s[1], c), (s[2], c), ...
InOnly(s, c) == [row |-> Tensor(s), col |-> [k \in 0..(Len(s) - 1) |-> c]]

\* every in-edge (s[i], c) immediately followed by its reverse (c, s[i])
PairedStar(s, c) ==
    [row |-> [e \in 0..(2 * Len(s) - 1) |-> IF e % 2 = 0 THEN s[(e \div 2) + 1] ELSE c],
     col |-> [e \in 0..(2 * Len(s) - 1) |-> IF e % 2 = 0 THEN c ELSE s[(e \div 2) + 1]]]

\* in-edges of two centres, c1's list and c2's list either one after the other
\* or alternating
TwoCentres(s1, c1, s2, c2, alternate) ==
    LET n1 == Len(s1)
        n2 == Len(s2)
        edge(e) ==
            IF alternate /\ e < 2 * n1 /\ e < 2 * n2
            THEN IF e % 2 = 0 THEN <<s1[(e \div 2) + 1], c1>>
                              ELSE <<s2[(e \div 2) + 1], c2>>
            ELSE IF alternate
            THEN LET m == IF n1 < n2 THEN n1 ELSE n2
                 IN IF n1 > m THEN <<s1[e - m + 1], c1>> ELSE <<s2[e - m + 1], c2>>
            ELSE IF e < n1 THEN <<s1[e + 1], c1>> ELSE <<s2[e - n1 + 1], c2>>
    IN [row |-> [e \in 0..(n1 + n2 - 1) |-> edge(e)[1]],
        col |-> [e \in 0..(n1 + n2 - 1) |-> edge(e)[2]]]

Graph(g, p, v, t, h) ==
    [row |-> g.row, col |-> g.col, parity |-> p, variant |-> v, tetra |-> t, H |-> h]

\* one centre (the first or the last node) with a list of distinct in-neighbours,
\* reverse edges absent
StarInputs ==
    {Graph(InOnly(s, c), ParityOf(c :> p), v, TRUE, 1) :
        s \in SrcLists(Nodes), c \in {0, NumNodes - 1}, p \in ParityVals,
        v \in Variants}

\* the same with every bond stored as an adjacent pair of directed edges; the
\* first leaf may be marked as a stereocentre too
PairedInputs ==
    {Graph(PairedStar(s, 0), ParityOf((0 :> p) @@ (1 :> q)), v, TRUE, 1) :
        s \in SrcLists(Nodes \ {0}), p \in {-1, 0, 1}, q \in {0, 1}, v \in Variants}

\* two centres anywhere in the index range, each with 3 or 4 in-neighbours taken
\* in ascending or descending order, edge blocks in either order or alternating
Others(c, n, down) ==
    LET S == Ascending({i \in Nodes : i # c})
    IN [k \in 1..n |-> IF down THEN S[(TetraArity - k) % Size(S)] ELSE S[k - 1]]

TwoCentreInputs ==
    UNION {
        {Graph(TwoCentres(Others(c1, n1, d1), c1, Others(c2, TetraArity, FALSE), c2, alt),
               ParityOf((c1 :> p1) @@ (c2 :> p2)), v, TRUE, 1) :
            c2 \in Nodes \ {c1}, n1 \in {TetraArity - 1, TetraArity},
            d1 \in BOOLEAN, alt \in BOOLEAN,
            p1 \in {-1, 1}, p2 \in {-1, 0, 1}, v \in Variants} :
        c1 \in Nodes}

\* layers built with args.tetra = False, and hidden sizes other than 1
PlainInputs ==
    {Graph(IF paired THEN PairedStar(s, 0) ELSE InOnly(s, 0),
           ParityOf(0 :> p), v, t, h) :
        s \in {Others(0, n, FALSE) : n \in 0..(NumNodes - 1)}, paired \in BOOLEAN,
        p \in {0, 1}, v \in Variants, t \in BOOLEAN, h \in 1..MaxH}
    \cup
    {Graph(InOnly(Others(NumNodes - 1, n, FALSE), NumNodes - 1), ParityOf(<< >>), v, t, h) :
        n \in 0..(NumNodes - 1), v \in Variants, t \in BOOLEAN, h \in 1..MaxH}

Inputs == StarInputs \cup PairedInputs \cup TwoCentreInputs \cup PlainInputs

(* ------------------------- library operations -------------------------- *)
\* torch_geometric.utils.degree(index, num_nodes): occurrences of each node
degree(index, n) ==
    [i \in 0..(n - 1) |-> Cardinality({e \in DOMAIN index : index[e] = i})]

\* faulty variant: the indices of the nonzero entries, largest first
nonzeroDescending(t) ==
    LET S == {i \in DOMAIN t : t[i] # 0}
    IN [k \in 0..(Cardinality(S) - 1) |-> Nth(S, Cardinality(S) - 1 - k)]

\* t.nonzero().squeeze(1): the indices of the nonzero entries, ascending
nonzero(t) == Ascending({i \in DOMAIN t : t[i] # 0})

\* t[mask] for a 1-D tensor t and a boolean mask: kept entries in index order
MaskedSelect(t, mask) ==
    LET P == {e \in DOMAIN t : mask[e]}
    IN [k \in 0..(Cardinality(P) - 1) |-> t[Nth(P, k)]]

\* number of rows scatter-add gives the aggregated message: x.size(0) when x is
\* passed to propagate, else (x=None) one more than the largest target index
NumRows(v, colT, n) ==
    IF ~Directed(v) THEN n
    ELSE IF colT = Empty THEN 0
    ELSE 1 + CHOOSE m \in Range(colT) : \A c \in Range(colT) : c <= m

(* ------------------------------ forward -------------------------------- *)
One == <<1, 1>>
NoMsg == [tetra |-> FALSE, reps |-> Empty, tdeg |-> Empty]

\* deg = degree(col, x.size(0)) + 1
Deg(colT, n) == [i \in 0..(n - 1) |-> degree(colT, n)[i] + 1]

\* norm = deg_inv_sqrt[row] * deg_inv_sqrt[col]: the two degrees whose pow(-0.5)
\* are multiplied
Norm(rowT, colT, d) == [e \in DOMAIN rowT |-> <<d[rowT[e]], d[colT[e]]>>]

\* message() of each class for edge e (x_j = x[row[e]])
Message(v, rowT, nrm, e) ==
    CASE v = "GCN" -> [node |-> rowT[e], edge |-> e, w |-> nrm[e]]
      [] v = "GINE" -> [node |-> rowT[e], edge |-> e, w |-> One]
      [] OTHER -> [node |-> NoNode, edge |-> e, w |-> One]

\* propagate with aggr='add': per target node the sum of the messages of its
\* in-edges, kept as the list of summands in edge order
Propagate(v, rowT, colT, n, nrm) ==
    [i \in 0..(NumRows(v, colT, n) - 1) |->
        [tetra |-> FALSE,
         reps |-> MaskedSelect([e \in DOMAIN rowT |-> Message(v, rowT, nrm, e)],
                               [e \in DOMAIN colT |-> colT[e] = i]),
         tdeg |-> Empty]]

\* faulty variant: x_new[:len(values)] = values
IndexPutLeading(msg, ids, vals) ==
    [i \in DOMAIN msg |-> IF i \in DOMAIN vals THEN vals[i] ELSE msg[i]]

\* x_new[tetra_ids] = values
IndexPut(msg, ids, vals) ==
    [i \in DOMAIN msg |->
        IF \E k \in DOMAIN ids : ids[k] = i
        THEN vals[CHOOSE k \in DOMAIN ids : ids[k] = i]
        ELSE msg[i]]

\* edge_attr as the offsets of its (E, h) contiguous storage
EdgeAttr(E, h) == [e \in 0..(E - 1) |-> [c \in 0..(h - 1) |-> e * h + c]]

\* faulty variant: the view is refused for every odd number of edges
ViewFitsEven(E, h) == E > 0 /\ E % 2 = 0

\* t.view(E // 2, 2, -1) exists
ViewFits(E, h) == (E \div 2) > 0 /\ (E * h) % (2 * (E \div 2)) = 0

\* faulty variant: torch.flip(..., dims=[0]), the order of the pairs reversed
FlipPairs(t, h) ==
    LET E == Size(t)
        L == (E * h) \div (2 * (E \div 2))
        src(f) == ((E \div 2) - 1 - (f \div (2 * L))) * (2 * L) + (f % (2 * L))
    IN [e \in 0..(E - 1) |->
          [c \in 0..(h - 1) |-> t[src(e * h + c) \div h][src(e * h + c) % h]]]

\* torch.flip(t.view(E // 2, 2, -1), dims=[1]).view(E, -1) for an (E, h) tensor t
Flip(t, h) ==
    LET E == Size(t)
        L == (E * h) \div (2 * (E \div 2))
        src(f) == (f \div (2 * L)) * (2 * L) + (1 - ((f % (2 * L)) \div L)) * L + (f % L)
    IN [e \in 0..(E - 1) |->
          [c \in 0..(h - 1) |-> t[src(e * h + c) \div h][src(e * h + c) % h]]]

\* first returned tensor
NodeOut(v, msg) ==
    [i \in DOMAIN msg |-> [msg |-> msg[i], self |-> IF Directed(v) THEN NoNode ELSE i]]

\* second returned tensor: edge_attr itself, or the map of a_message[row] - rev_message
EdgeOut(v, rowT, msg, rev) ==
    [e \in DOMAIN rowT |->
        IF Directed(v) THEN [attr |-> NoNode, msg |-> msg[rowT[e]], rev |-> rev[e]]
        ELSE [attr |-> e, msg |-> NoMsg, rev |-> Empty]]

(* ---------------------------- tetra_message ---------------------------- *)
\* faulty variant: the neighbours of each centre sorted by node index
NeighbourRowsSorted(rowT, colT, n, ids) ==
    LET centres == Ascending({i \in 0..(n - 1) : i \in Range(ids)})
    IN [k \in DOMAIN centres |->
          Ascending({rowT[e] : e \in {f \in DOMAIN colT : colT[f] = centres[k]}})]

\* [row[col == i].unsqueeze(0) for i in range(x.size(0)) if i in tetra_ids]
NeighbourRows(rowT, colT, n, ids) ==
    LET centres == Ascending({i \in 0..(n - 1) : i \in Range(ids)})
    IN [k \in DOMAIN centres |->
          MaskedSelect(rowT, [e \in DOMAIN colT |-> colT[e] = centres[k]])]

\* torch.cat of rows of shape (1, d_k) needs one common d
CatFits(rows) == \A j, k \in DOMAIN rows : Size(rows[j]) = Size(rows[k])

Width(rows) == IF rows = Empty THEN 0 ELSE Size(rows[0])

\* t_deg = deg[tetra_nei_ids] with deg = degree(col, x.size(0))
TDeg(colT, n, nei) ==
    [k \in DOMAIN nei |-> [j \in DOMAIN nei[k] |-> degree(colT, n)[nei[k][j]]]]

\* faulty variant: ccw_mask = parity_atoms[tetra_ids] < 0
CcwMaskNegative(p, ids) == [k \in DOMAIN ids |-> p[ids[k]] < 0]

\* ccw_mask = parity_atoms[tetra_ids] == -1
CcwMask(p, ids) == [k \in DOMAIN ids |-> p[ids[k]] = -1]

\* faulty variant: the last two entries exchanged instead of the first two
SwapOrderLastTwo == Tensor(<<0, 1, 3, 2>>)

SwapOrder == Tensor(<<1, 0, 2, 3>>)

\* tetra_nei_ids[ccw_mask] = tetra_nei_ids.clone()[ccw_mask][:, [1, 0, 2, 3]]
SwitchEntries(nei, mask) ==
    [k \in DOMAIN nei |->
        IF mask[k] THEN [j \in DOMAIN SwapOrder |-> nei[k][SwapOrder[j]]] ELSE nei[k]]

\* faulty variant: each centre repeated once per neighbour found
CentreIdsByWidth(ids, nei) ==
    [m \in 0..(Width(nei) * Size(ids) - 1) |-> ids[m \div Width(nei)]]

\* tetra_ids.repeat_interleave(4)
CentreIds(ids, nei) == [m \in 0..(TetraArity * Size(ids) - 1) |-> ids[m \div TetraArity]]

\* torch.cat([tetra_nei_ids.view(1, -1), centres.unsqueeze(0)], dim=0) exists
EdgeIdsFit(nei, centres) == Size(nei) * Width(nei) = Size(centres)

\* faulty variant: (centre, neighbour) pairs
EdgeIdsReversed(nei, centres) ==
    [m \in DOMAIN centres |->
        <<centres[m], nei[m \div Width(nei)][m % Width(nei)]>>]

\* the columns of edge_ids: (neighbour, centre) pairs
EdgeIds(nei, centres) ==
    [m \in DOMAIN centres |->
        <<nei[m \div Width(nei)][m % Width(nei)], centres[m]>>]

\* torch.where((a == edge_index.t()).all(dim=1))[0] for each column a of edge_ids
AttrIds(eids, rowT, colT) ==
    [m \in DOMAIN eids |-> {e \in DOMAIN rowT : <<rowT[e], colT[e]>> = eids[m]}]

\* edge_attr[attr_ids, :] needs one position per looked-up pair
LookupFits(attr) == \A m \in DOMAIN attr : Cardinality(attr[m]) = 1

\* edge_attr[attr_ids, :].view(K, 4, -1), by edge position
EdgeReps(attr) ==
    [k \in 0..((Size(attr) \div TetraArity) - 1) |->
        [j \in 0..(TetraArity - 1) |-> CHOOSE e \in attr[TetraArity * k + j] : TRUE]]

\* reps = x[tetra_nei_ids] + edge_reps (GCNConv, GINEConv), edge_reps (directed)
Reps(v, nei, ereps) ==
    [k \in DOMAIN ereps |->
        [j \in DOMAIN ereps[k] |->
            [node |-> IF Directed(v) THEN NoNode ELSE nei[k][j],
             edge |-> ereps[k][j], w |-> One]]]

\* self.tetra_update(reps), scaled by t_norm in GCNConv
TetraMessage(v, reps, tdeg) ==
    [k \in DOMAIN reps |->
        [tetra |-> TRUE, reps |-> reps[k],
         tdeg |-> IF v = "GCN" THEN tdeg[k] ELSE Empty]]

(* ------------------------------- actions ------------------------------- *)
Init ==
    \E g \in Inputs :
        /\ variant = g.variant /\ tetra = g.tetra /\ H = g.H
        /\ N = NumNodes /\ row = g.row /\ col = g.col /\ parity_atoms = g.parity
        /\ pc = "start" /\ err = ""
        /\ deg = Empty /\ norm = Empty /\ x_new = Empty
        /\ tetra_ids = Empty /\ tetra_nei_ids = Empty /\ t_deg = Empty
        /\ edge_ids = Empty /\ edge_reps = Empty /\ tmsg = Empty
        /\ rev_message = Empty /\ out_node = Empty /\ out_edge = Empty

inputs == <<variant, tetra, H, N, row, col, parity_atoms>>

Raise(what) == pc' = "failed" /\ err' = what

\* GCNConv.forward: deg, deg_inv_sqrt, norm
Normalize ==
    /\ pc = "start" /\ variant = "GCN"
    /\ deg' = Deg(col, N)
    /\ norm' = Norm(row, col, Deg(col, N))
    /\ pc' = "normed"
    /\ UNCHANGED <<inputs, err, x_new, tetra_ids, tetra_nei_ids, t_deg, edge_ids,
                   edge_reps, tmsg, rev_message, out_node, out_edge>>

\* self.propagate(edge_index, ...)
Aggregate ==
    /\ pc = IF variant = "GCN" THEN "normed" ELSE "start"
    /\ x_new' = Propagate(variant, row, col, N, norm)
    /\ pc' = "propagated"
    /\ UNCHANGED <<inputs, err, deg, norm, tetra_ids, tetra_nei_ids, t_deg, edge_ids,
                   edge_reps, tmsg, rev_message, out_node, out_edge>>

\* if self.tetra: is false
TetraOff ==
    /\ pc = "propagated" /\ ~tetra
    /\ pc' = "merged"
    /\ UNCHANGED <<inputs, err, deg, norm, x_new, tetra_ids, tetra_nei_ids, t_deg,
                   edge_ids, edge_reps, tmsg, rev_message, out_node, out_edge>>

\* tetra_ids = parity_atoms.nonzero().squeeze(1); if tetra_ids.nelement() != 0
FindTetraIds ==
    /\ pc = "propagated" /\ tetra
    /\ tetra_ids' = nonzero(parity_atoms)
    /\ pc' = IF nonzero(parity_atoms) = Empty THEN "merged" ELSE "ids"
    /\ UNCHANGED <<inputs, err, deg, norm, x_new, tetra_nei_ids, t_deg, edge_ids,
                   edge_reps, tmsg, rev_message, out_node, out_edge>>

\* tetra_message: tetra_nei_ids = torch.cat([...])
ResolveNeighbours ==
    /\ pc = "ids"
    /\ LET rows == NeighbourRows(row, col, N, tetra_ids)
       IN IF CatFits(rows)
          THEN tetra_nei_ids' = rows /\ pc' = "resolved" /\ err' = err
          ELSE tetra_nei_ids' = tetra_nei_ids /\ Raise("cat: sizes of tensors must match")
    /\ UNCHANGED <<inputs, deg, norm, x_new, tetra_ids, t_deg, edge_ids, edge_reps,
                   tmsg, rev_message, out_node, out_edge>>

\* GCNConv.tetra_message: deg, t_deg, t_deg_inv_sqrt, t_norm
PseudoDegree ==
    /\ pc = "resolved" /\ variant = "GCN"
    /\ t_deg' = TDeg(col, N, tetra_nei_ids)
    /\ pc' = "weighted"
    /\ UNCHANGED <<inputs, err, deg, norm, x_new, tetra_ids, tetra_nei_ids, edge_ids,
                   edge_reps, tmsg, rev_message, out_node, out_edge>>

\* tetra_message: ccw_mask and the switch of entries 0 and 1.  With a width
\* other than 4 the column index [1, 0, 2, 3] is out of range (narrower) or the
\* value does not fit the target (wider) as soon as one row is selected; with
\* no row selected the build may or may not raise for the empty selection.
SwitchCcw ==
    /\ pc = IF variant = "GCN" THEN "weighted" ELSE "resolved"
    /\ LET mask == CcwMask(parity_atoms, tetra_ids)
           d == Width(tetra_nei_ids)
           any == \E k \in DOMAIN mask : mask[k]
       IN \/ /\ d = TetraArity
             /\ tetra_nei_ids' = SwitchEntries(tetra_nei_ids, mask)
             /\ pc' = "switched" /\ err' = err
          \/ /\ d # TetraArity /\ ~any
             /\ tetra_nei_ids' = tetra_nei_ids
             /\ pc' = "switched" /\ err' = err
          \/ /\ d # TetraArity
             /\ tetra_nei_ids' = tetra_nei_ids
             /\ Raise(IF d < TetraArity /\ any THEN "index out of bounds"
                                                ELSE "shape mismatch")
    /\ UNCHANGED <<inputs, deg, norm, x_new, tetra_ids, t_deg, edge_ids, edge_reps,
                   tmsg, rev_message, out_node, out_edge>>

\* tetra_message: edge_ids = torch.cat([... .view(1, -1), ... .repeat_interleave(4)])
BuildEdgeIds ==
    /\ pc = "switched"
    /\ LET centres == CentreIds(tetra_ids, tetra_nei_ids)
       IN IF EdgeIdsFit(tetra_nei_ids, centres)
          THEN edge_ids' = EdgeIds(tetra_nei_ids, centres)
               /\ pc' = "edge_ids" /\ err' = err
          ELSE edge_ids' = edge_ids /\ Raise("cat: sizes of tensors must match")
    /\ UNCHANGED <<inputs, deg, norm, x_new, tetra_ids, tetra_nei_ids, t_deg,
                   edge_reps, tmsg, rev_message, out_node, out_edge>>

\* tetra_message: attr_ids, edge_reps, reps and the returned tetra_update(reps)
LookupEdges ==
    /\ pc = "edge_ids"
    /\ LET attr == AttrIds(edge_ids, row, col)
       IN IF LookupFits(attr)
          THEN /\ edge_reps' = EdgeReps(attr)
               /\ tmsg' = TetraMessage(variant,
                                       Reps(variant, tetra_nei_ids, EdgeReps(attr)), t_deg)
               /\ pc' = "tetra_out" /\ err' = err
          ELSE /\ edge_reps' = edge_reps /\ tmsg' = tmsg
               /\ Raise("edge lookup: not one position per pair")
    /\ UNCHANGED <<inputs, deg, norm, x_new, tetra_ids, tetra_nei_ids, t_deg,
                   edge_ids, rev_message, out_node, out_edge>>

\* forward: x_new[tetra_ids] = self.tetra_message(...)
Overwrite ==
    /\ pc = "tetra_out"
    /\ IF Range(tetra_ids) \subseteq DOMAIN x_new /\ Size(tmsg) = Size(tetra_ids)
       THEN x_new' = IndexPut(x_new, tetra_ids, tmsg) /\ pc' = "merged" /\ err' = err
       ELSE x_new' = x_new /\ Raise("index out of bounds")
    /\ UNCHANGED <<inputs, deg, norm, tetra_ids, tetra_nei_ids, t_deg, edge_ids,
                   edge_reps, tmsg, rev_message, out_node, out_edge>>

\* DMPNNConv / OrigDMPNNConv.forward: rev_message
ReverseEdges ==
    /\ pc = "merged" /\ Directed(variant)
    /\ IF ViewFits(Size(row), H)
       THEN rev_message' = Flip(EdgeAttr(Size(row), H), H)
            /\ pc' = "reversed" /\ err' = err
       ELSE rev_message' = rev_message /\ Raise("view: shape is invalid for input")
    /\ UNCHANGED <<inputs, deg, norm, x_new, tetra_ids, tetra_nei_ids, t_deg,
                   edge_ids, edge_reps, tmsg, out_node, out_edge>>

\* the combination with the residual and the return of (nodes, edges);
\* OrigDMPNNConv is taken with its default node_agg=False
Return ==
    /\ pc = IF Directed(variant) THEN "reversed" ELSE "merged"
    /\ IF Directed(variant) => Range(row) \subseteq DOMAIN x_new
       THEN /\ out_node' = NodeOut(variant, x_new)
            /\ out_edge' = EdgeOut(variant, row, x_new, rev_message)
            /\ pc' = "done" /\ err' = err
       ELSE /\ out_node' = out_node /\ out_edge' = out_edge
            /\ Raise("index out of range")
    /\ UNCHANGED <<inputs, deg, norm, x_new, tetra_ids, tetra_nei_ids, t_deg,
                   edge_ids, edge_reps, tmsg, rev_message>>

Next ==
    \/ Normalize \/ Aggregate \/ TetraOff \/ FindTetraIds \/ ResolveNeighbours
    \/ PseudoDegree \/ SwitchCcw \/ BuildEdgeIds \/ LookupEdges \/ Overwrite
    \/ ReverseEdges \/ Return

Spec == Init /\ [][Next]_vars

(* ------------------------- vocabulary of the claims -------------------- *)
InEdges(c) == {e \in DOMAIN col : col[e] = c}
Stereo == {i \in DOMAIN parity_atoms : parity_atoms[i] # 0}
NumEdges == Size(row)

\* sources of the in-edges of c in their order of appearance in the edge list
ScanOrder(c) == [j \in 0..(Cardinality(InEdges(c)) - 1) |-> row[Nth(InEdges(c), j)]]

FourDistinct(c) ==
    /\ Cardinality(InEdges(c)) = TetraArity
    /\ Cardinality({row[e] : e \in InEdges(c)}) = TetraArity

\* edge 2k+1 is the reverse direction of edge 2k, for every k
Paired ==
    /\ NumEdges % 2 = 0
    /\ \A e \in DOMAIN row :
          e % 2 = 0 => row[e + 1] = col[e] /\ col[e + 1] = row[e]

Switched == pc \in {"switched", "edge_ids", "tetra_out", "merged", "reversed", "done"}
LookedUp == pc \in {"tetra_out", "merged", "reversed", "done"}
Merged == pc \in {"merged", "reversed", "done"}
TetraRan == tetra /\ Stereo # {}

\* what a layer built with args.tetra = False returns for the same inputs
PlainNodes == NodeOut(variant, Propagate(variant, row, col, N, norm))
PlainEdges ==
    EdgeOut(variant, row, Propagate(variant, row, col, N, norm),
            IF Directed(variant) THEN Flip(EdgeAttr(NumEdges, H), H) ELSE Empty)

\* the conditions under which forward raises: a stereocentre without exactly 4
\* in-edges; in the directed classes an edge count below 2, or odd with a hidden
\* size that is no multiple of E - 1, or a source index above every target index
WrongCount == tetra /\ \E i \in Stereo : Cardinality(InEdges(i)) # TetraArity
ViewFails == NumEdges < 2 \/ (NumEdges % 2 = 1 /\ H % (NumEdges - 1) # 0)
SourceOutOfRange == \E e \in DOMAIN row : \A f \in DOMAIN col : col[f] < row[e]
ShapeFailure == WrongCount \/ (Directed(variant) /\ (ViewFails \/ SourceOutOfRange))

(* -------------------------------- claims ------------------------------- *)
\* C1: the tetra correction overwrites the aggregated message only at rows of
\* nonzero parity and leaves every other row as propagate produced it; with all
\* parities 0 a layer with tetra enabled returns what the layer with the
\* correction skipped returns (node and edge outputs).
C1_Passthrough ==
    /\ Merged =>
          \A i \in DOMAIN x_new :
              /\ parity_atoms[i] = 0 =>
                    x_new[i] = Propagate(variant, row, col, N, norm)[i]
              /\ x_new[i].tetra <=> (tetra /\ parity_atoms[i] # 0)
    /\ (pc = "done" /\ ~tetra) => out_node = PlainNodes /\ out_edge = PlainEdges
    /\ (pc = "done" /\ tetra /\ Stereo = {}) =>
          out_node = PlainNodes /\ out_edge = PlainEdges

C1_Witness ==
    /\ pc = "done" /\ tetra
    /\ \E i \in DOMAIN x_new : x_new[i].tetra
    /\ \E i \in DOMAIN x_new : parity_atoms[i] = 0 /\ x_new[i].reps # Empty

\* C2: for a node c of nonzero parity with exactly 4 in-edges, the tuple built
\* by tetra_message lists the sources of the edges with col = c in their order
\* of appearance in the edge list, positions 0 and 1 exchanged iff
\* parity[c] = -1; the star with in-edges from 1,2,3,4 into centre 0 gives
\* [1,2,3,4] for parity +1 and [2,1,3,4] for parity -1.
C2_ScanOrder ==
    Switched /\ TetraRan =>
        /\ Size(tetra_nei_ids) = Size(tetra_ids)
        /\ \A k \in DOMAIN tetra_ids :
              LET c == tetra_ids[k]
              IN Cardinality(InEdges(c)) = TetraArity =>
                   \E e1, e2, e3, e4 \in InEdges(c) :
                       /\ e1 < e2 /\ e2 < e3 /\ e3 < e4
                       /\ tetra_nei_ids[k] =
                            IF parity_atoms[c] = -1
                            THEN Tensor(<<row[e2], row[e1], row[e3], row[e4]>>)
                            ELSE Tensor(<<row[e1], row[e2], row[e3], row[e4]>>)
        /\ (row = Tensor(<<1, 2, 3, 4>>) /\ col = Tensor(<<0, 0, 0, 0>>)) =>
              /\ parity_atoms[0] = 1 => tetra_nei_ids[0] = Tensor(<<1, 2, 3, 4>>)
              /\ parity_atoms[0] = -1 => tetra_nei_ids[0] = Tensor(<<2, 1, 3, 4>>)

C2_Witness ==
    /\ pc = "switched"
    /\ row = Tensor(<<3, 1, 4, 2>>) /\ col = Tensor(<<0, 0, 0, 0>>)
    /\ parity_atoms[0] = -1
    /\ tetra_nei_ids = Tensor(<<Tensor(<<1, 3, 4, 2>>)>>)

\* the tuples tetra_message would build for another edge list and parity vector
Resolved(rowT, p) ==
    SwitchEntries(NeighbourRows(rowT, col, N, nonzero(p)), CcwMask(p, nonzero(p)))

\* the edge list with the sources of the first two in-edges of c exchanged
FirstTwoExchanged(c) ==
    LET e1 == Nth(InEdges(c), 0)
        e2 == Nth(InEdges(c), 1)
    IN [row EXCEPT ![e1] = row[e2], ![e2] = row[e1]]

\* C3: for a stereocentre with four distinct in-neighbours, scan order
\* (a,b,c,d) with parity +1 resolves to the same tuple as scan order (b,a,c,d)
\* with parity -1 (and the other way round), and applying the parity -1 switch
\* a second time restores the scan order.
C3_ParitySwapInverse ==
    Switched /\ TetraRan /\ Width(tetra_nei_ids) = TetraArity =>
        /\ \A k \in DOMAIN tetra_ids :
              LET c == tetra_ids[k]
              IN (FourDistinct(c) /\ parity_atoms[c] \in {-1, 1}) =>
                   Resolved(FirstTwoExchanged(c),
                            [parity_atoms EXCEPT ![c] = 0 - parity_atoms[c]])[k]
                     = tetra_nei_ids[k]
        /\ SwitchEntries(tetra_nei_ids, CcwMask(parity_atoms, tetra_ids))
             = [k \in DOMAIN tetra_ids |-> ScanOrder(tetra_ids[k])]

C3_Witness ==
    /\ pc = "switched"
    /\ \E k \in DOMAIN tetra_ids :
          /\ FourDistinct(tetra_ids[k]) /\ parity_atoms[tetra_ids[k]] = 1
          /\ tetra_nei_ids[k][0] > tetra_nei_ids[k][1]
    /\ \E k \in DOMAIN tetra_ids :
          FourDistinct(tetra_ids[k]) /\ parity_atoms[tetra_ids[k]] = -1

\* C4: for a stereocentre c with 4 distinct in-neighbours and every position j
\* of its tuple t after the switch, the j-th representation given to the tetra
\* update is built from edge_attr[e] for the one position e with
\* (row[e], col[e]) = (t[j], c); there are exactly 4 per stereocentre, permuted
\* together with the neighbours.
C4_EdgeResolution ==
    LookedUp /\ TetraRan =>
        /\ Size(edge_reps) = Size(tetra_ids) /\ Size(tmsg) = Size(tetra_ids)
        /\ \A k \in DOMAIN tetra_ids :
              LET c == tetra_ids[k]
                  t == tetra_nei_ids[k]
              IN FourDistinct(c) =>
                   /\ Size(tmsg[k].reps) = TetraArity
                   /\ \A j \in 0..(TetraArity - 1) :
                        LET M == {e \in DOMAIN row : row[e] = t[j] /\ col[e] = c}
                        IN /\ Cardinality(M) = 1
                           /\ edge_reps[k][j] \in M
                           /\ tmsg[k].reps[j].edge = edge_reps[k][j]
                           /\ tmsg[k].reps[j].node \in {NoNode, row[edge_reps[k][j]]}

C4_Witness ==
    /\ pc = "tetra_out" /\ Paired
    /\ \E k \in DOMAIN tetra_ids :
          /\ parity_atoms[tetra_ids[k]] = -1 /\ FourDistinct(tetra_ids[k])
          /\ edge_reps[k][0] > edge_reps[k][1]

\* C5: in the directed classes, for an edge list of even length E and every
\* k in [0, E/2), rev_message[2k] = edge_attr[2k+1] and rev_message[2k+1] =
\* edge_attr[2k]; reversing rev_message again gives edge_attr.
C5_ReverseEdges ==
    (pc \in {"reversed", "done"} /\ Directed(variant) /\ NumEdges % 2 = 0) =>
        /\ Size(rev_message) = NumEdges
        /\ \A k \in 0..((NumEdges \div 2) - 1) :
              /\ rev_message[2 * k] = EdgeAttr(NumEdges, H)[2 * k + 1]
              /\ rev_message[2 * k + 1] = EdgeAttr(NumEdges, H)[2 * k]
        /\ Flip(rev_message, H) = EdgeAttr(NumEdges, H)

C5_Witness ==
    pc = "reversed" /\ NumEdges % 2 = 0 /\ NumEdges >= 4 /\ H >= 2

\* C6: when a node of nonzero parity has a number of in-edges other than 4,
\* forward of a layer with tetra enabled ends in an error: tetra_message never
\* returns, no message row is overwritten and no outputs are returned, whatever
\* the number of stereocentres and their parity signs.
C6_WrongCountFatal ==
    WrongCount =>
        /\ pc \notin {"edge_ids", "tetra_out", "merged", "reversed", "done"}
        /\ edge_ids = Empty /\ tmsg = Empty /\ out_node = Empty /\ out_edge = Empty
        /\ \A i \in DOMAIN x_new : ~x_new[i].tetra
        /\ pc = "failed" => err # ""

C6_Witness ==
    /\ pc = "failed"
    /\ \E i \in Stereo : Cardinality(InEdges(i)) > TetraArity
    /\ \A i \in Stereo : parity_atoms[i] = 1

C8_InvalidParity ==
    \A i \in DOMAIN parity_atoms :
        (parity_atoms[i] \notin {-1, 0, 1} /\ tetra) =>
            /\ pc \notin {"start", "normed", "propagated"} => i \in Range(tetra_ids)
            /\ Switched =>
                  \A k \in DOMAIN tetra_ids :
                      tetra_ids[k] = i => tetra_nei_ids[k] = ScanOrder(i)
            /\ Merged => x_new[i].tetra /\ x_new[i] \in Range(tmsg)
            /\ pc = "failed" => ShapeFailure

C8_Witness ==
    /\ pc = "done"
    /\ \E i \in DOMAIN x_new :
          /\ parity_atoms[i] = -2 /\ x_new[i].tetra
          /\ \E k \in DOMAIN tetra_ids :
                tetra_ids[k] = i /\ tetra_nei_ids[k][0] > tetra_nei_ids[k][1]

\* C9 as stated: in the GCN-style layer every degree raised to the power -0.5
\* is at least 1, being the in-degree of the node plus 1, and norm[e] pairs the
\* coefficients of row[e] and col[e] (the degrees of tetra_message are looked
\* at in the runs that return).
C9_DegreeAtLeastOne ==
    variant = "GCN" =>
        /\ \A i \in DOMAIN deg : deg[i] = Cardinality(InEdges(i)) + 1 /\ deg[i] >= 1
        /\ \A e \in DOMAIN norm : norm[e] = <<deg[row[e]], deg[col[e]]>>
        /\ pc = "done" =>
              \A k \in DOMAIN t_deg : \A j \in DOMAIN t_deg[k] : t_deg[k][j] >= 1

\* C10: the k-th row of the neighbour tuples belongs to tetra_ids[k], the k-th
\* node of nonzero parity in ascending index order; the parity -1 mask, the
\* centre index repeated 4 times for the edge lookup and the overwrite of the
\* message in forward all refer to that node, for any number and placement of
\* stereocentres.
C10_RowAlignment ==
    /\ (pc \notin {"start", "normed", "propagated"} /\ tetra) =>
          tetra_ids = [k \in 0..(Cardinality(Stereo) - 1) |-> Nth(Stereo, k)]
    /\ (pc \in {"resolved", "weighted"} \/ (Switched /\ TetraRan)) =>
          /\ Size(tetra_nei_ids) = Size(tetra_ids)
          /\ \A k \in DOMAIN tetra_ids :
                \A j \in DOMAIN tetra_nei_ids[k] :
                    \E e \in InEdges(tetra_ids[k]) : row[e] = tetra_nei_ids[k][j]
    /\ (Switched /\ TetraRan /\ Width(tetra_nei_ids) = TetraArity) =>
          \A k \in DOMAIN tetra_ids :
              FourDistinct(tetra_ids[k]) =>
                  (tetra_nei_ids[k] # ScanOrder(tetra_ids[k])
                      <=> parity_atoms[tetra_ids[k]] = -1)
    /\ (pc = "edge_ids" \/ (LookedUp /\ TetraRan)) =>
          \A k \in DOMAIN tetra_ids : \A j \in 0..(TetraArity - 1) :
              edge_ids[TetraArity * k + j] = <<tetra_nei_ids[k][j], tetra_ids[k]>>
    /\ (Merged /\ TetraRan) =>
          \A k \in DOMAIN tetra_ids :
              /\ x_new[tetra_ids[k]] = tmsg[k]
              /\ \A j \in DOMAIN tmsg[k].reps :
                    tmsg[k].reps[j].edge \in InEdges(tetra_ids[k])

C10_Witness ==
    /\ pc = "merged" /\ Size(tetra_ids) = 2
    /\ col[0] = tetra_ids[1] /\ tetra_ids[0] > 0
    /\ parity_atoms[tetra_ids[0]] = 1 /\ parity_atoms[tetra_ids[1]] = -1
    /\ x_new[tetra_ids[1]] = tmsg[1] /\ tmsg[0] # tmsg[1]

====
